---- MODULE Spec2Model ----
(***************************************************************************)
(* Model of apps/ELFLoader/elf_loader.cc: the USB receive path             *)
(* (elfloader_recv), the fallback timer (usb_timer, usb_timer_callback)    *)
(* and the load-and-run task (elfloader_main).                             *)
(*                                                                         *)
(* Device memory is one flat array of cells.  A cell stands for one byte   *)
(* of payload or for one field of an ELF header: the Elf32_Ehdr and        *)
(* Elf32_Phdr layouts are reduced to the fields elfloader_main reads, one  *)
(* cell per field, in the order <elf.h> declares them.  Pointers and the    *)
(* u32 fields of a packet wrap at 2^AddrBits; the width is scaled from 32  *)
(* to 30 bits, the widest whose sums TLC's integers hold.  An access       *)
(* outside the populated memory is a bus fault.                            *)
(*                                                                         *)
(* The priorities of the tasks (usb_device_task, the timer service task,   *)
(* elfloader_main) are set outside this file, so the steps of the three    *)
(* contexts interleave freely.                                             *)
(***************************************************************************)
EXTENDS Integers, Sequences, FiniteSets, TLC

VARIABLES
    mem,                   \* device memory: [Addr -> Nat]
    heapTop,               \* malloc: next free heap address
    allocs,                \* malloc: set of <<base, size>> handed out
    elfloader_recv_image,  \* static uint8_t* elfloader_recv_image
    usb_timer,             \* "armed" | "firing" | "fired" | "stopped"
    usb_task,              \* usb_device_task: "running" | "suspended"
    tasks,                 \* the elfloader_main tasks created so far
    halted,                \* "none", or why the device stopped
    default_elf,           \* contents of /default.elf (<<>>: absent)
    cmds,                  \* packets handed to elfloader_recv so far
    setSizeSeen,           \* history: a SetSize packet was received
    last,                  \* history: the last packet elfloader_recv handled
    recv_armed             \* USB_DeviceHidRecv requests outstanding

vars == <<mem, heapTop, allocs, elfloader_recv_image, usb_timer, usb_task,
          tasks, halted, default_elf, cmds, setSizeSeen, last, recv_armed>>

----------------------------------------------------------------------------
\* Bounds of the model.

MaxCmds == 3        \* packets the host sends
MaxTasks == 2       \* elfloader_main tasks the kernel can create
TargetSize == 6     \* cells of memory below the heap
HeapSize == 30      \* cells of heap

----------------------------------------------------------------------------
\* Memory and pointers.

NULL == 0
AddrBits == 30
AddrSpace == 2 ^ AddrBits
HeapBase == TargetSize
MemSize == HeapBase + HeapSize
Addr == 0 .. (MemSize - 1)

\* Pointer arithmetic, wrapping at the pointer width.
PtrAdd(p, n) == (p + n) % AddrSpace

InMem(a) == a \in Addr

\* The number of leading cells of [p, p+n) that are populated memory.
RECURSIVE Prefix(_, _)
Prefix(p, n) ==
    IF n = 0 \/ ~InMem(p) THEN 0 ELSE 1 + Prefix(PtrAdd(p, 1), n - 1)

Range(p, n) == { PtrAdd(p, k) : k \in 0 .. (n - 1) }

\* malloc(n): the heap never shrinks, because nothing in this file frees
\* (the unique_ptr of elfloader_main is never destroyed: the function does
\* not return).  NULL when the request does not fit.
MallocFits(n) == n > 0 /\ heapTop + n <= MemSize
Malloc(n) == IF MallocFits(n) THEN heapTop ELSE NULL

\* The size malloc recorded for the block at p (0: p is no block).
AllocSize(p) ==
    IF \E a \in allocs : a[1] = p
    THEN (CHOOSE a \in allocs : a[1] = p)[2]
    ELSE 0

\* memcpy from a packet: the cells of seq written upwards from dst, as far
\* as memory is populated.
RECURSIVE WriteSeq(_, _, _)
WriteSeq(m, dst, seq) ==
    IF seq = <<>> \/ ~InMem(dst) THEN m
    ELSE WriteSeq([m EXCEPT ![dst] = Head(seq)], PtrAdd(dst, 1), Tail(seq))

\* memcpy inside memory, upwards, n cells (all of them populated).
RECURSIVE Memcpy(_, _, _, _)
Memcpy(m, dst, src, n) ==
    IF n = 0 THEN m
    ELSE Memcpy([m EXCEPT ![dst] = m[src]], PtrAdd(dst, 1), PtrAdd(src, 1), n - 1)

----------------------------------------------------------------------------
\* The ELF layout, reduced to the fields elfloader_main reads.

E_ENTRY == 0
E_PHOFF == 1
E_FLAGS == 2
E_PHENTSIZE == 3
E_PHNUM == 4
EhdrSize == 5

P_TYPE == 0
P_OFFSET == 1
P_PADDR == 2
P_FILESZ == 3
PhdrSize == 4          \* sizeof(Elf32_Phdr), in cells

PT_LOAD == 1
PT_NOTE == 4
EF_ARM_EABI_VER5 == 83886080        \* 0x05000000
EF_ARM_EABI_VER4 == 67108864        \* 0x04000000
EABI_SHIFT == 16777216              \* 2^24: EF_ARM_EABIMASK is 0xFF000000
EF_ARM_SOFT_FLOAT == 512            \* 0x200

EF_ARM_EABI_VERSION(flags) == (flags \div EABI_SHIFT) * EABI_SHIFT

\* Images the model feeds the loader.  Layout: header, program headers
\* from cell EhdrSize on, then the segments' cells.
RECURSIVE Flatten(_)
Flatten(ss) == IF ss = <<>> THEN <<>> ELSE Head(ss) \o Flatten(Tail(ss))

MkImage(entry, flags, phentsize, phdrs, data) ==
    <<entry, EhdrSize, flags, phentsize, Len(phdrs)>> \o Flatten(phdrs) \o data

OkFlags == EF_ARM_EABI_VER5 + EF_ARM_SOFT_FLOAT
DataOff1 == EhdrSize + PhdrSize          \* first data cell, one header
DataOff2 == EhdrSize + 2 * PhdrSize      \* first data cell, two headers

\* One loadable segment of two cells, loaded at address 2.
ImgOne == MkImage(2, OkFlags, PhdrSize,
                  << <<PT_LOAD, DataOff1, 2, 2>> >>, <<11, 12>>)
\* Two loadable segments with disjoint destinations.
ImgTwo == MkImage(1, OkFlags, PhdrSize,
                  << <<PT_LOAD, DataOff2, 0, 2>>,
                     <<PT_LOAD, DataOff2 + 1, 3, 1>> >>, <<11, 12>>)
\* A non-loadable entry and a loadable entry of file size zero.
ImgSkip == MkImage(1, OkFlags, PhdrSize,
                   << <<PT_NOTE, DataOff2, 4, 2>>,
                      <<PT_LOAD, DataOff2, 4, 0>> >>, <<11, 12>>)
\* Two loadable segments whose destinations overlap at address 2.
ImgOverlap == MkImage(1, OkFlags, PhdrSize,
                      << <<PT_LOAD, DataOff2, 1, 2>>,
                         <<PT_LOAD, DataOff2, 2, 1>> >>, <<11, 12>>)
\* The first segment lands on the p_paddr field of the second program
\* header, when the image sits at the bottom of the heap.
ImgSelf == MkImage(1, OkFlags, PhdrSize,
                   << <<PT_LOAD, DataOff2, HeapBase + EhdrSize + PhdrSize + P_PADDR, 1>>,
                      <<PT_LOAD, DataOff2 + 1, 1, 1>> >>, <<5, 12>>)
ImgBadAbi == MkImage(2, EF_ARM_EABI_VER4, PhdrSize,
                     << <<PT_LOAD, DataOff1, 2, 2>> >>, <<11, 12>>)
ImgBadPhent == MkImage(2, OkFlags, PhdrSize + 4,
                       << <<PT_LOAD, DataOff1, 2, 2>> >>, <<11, 12>>)
ImgBadBoth == MkImage(2, EF_ARM_EABI_VER4, PhdrSize + 4,
                      << <<PT_LOAD, DataOff1, 2, 2>> >>, <<11, 12>>)

\* No program headers at all.
ImgNoPh == MkImage(3, OkFlags, PhdrSize, <<>>, <<>>)

\* A loadable segment whose file range runs past the end of the image.
ImgBeyond == MkImage(2, OkFlags, PhdrSize,
                     << <<PT_LOAD, DataOff1, 2, 3>> >>, <<11>>)
\* A header that counts one program header more than the image holds.
ImgShortTable == [ImgNoPh EXCEPT ![E_PHNUM + 1] = 1]

Images == {ImgOne, ImgTwo, ImgNoPh, ImgSkip, ImgOverlap, ImgSelf,
           ImgBadAbi, ImgBadPhent, ImgBadBoth, ImgBeyond, ImgShortTable}

\* What /default.elf may hold (<<>>: the file is absent).
DefaultImages == {<<>>, ImgOne, ImgBadAbi}

----------------------------------------------------------------------------
\* Packets: opcode, packet length, and the ElfloaderSetSize / ElfloaderBytes
\* fields behind the opcode.

SetSizeOp == 0
BytesOp == 1
DoneOp == 2
SetSizeLen == 5        \* sizeof(ElfloaderSetSize) + 1
BytesHdrLen == 9       \* sizeof(ElfloaderBytes) + 1

SetSizePkt(n, len) ==
    [op |-> SetSizeOp, length |-> len, size |-> n, offset |-> 0, data |-> <<>>]
BytesPkt(off, d) ==
    [op |-> BytesOp, length |-> BytesHdrLen + Len(d), size |-> Len(d),
     offset |-> off, data |-> d]
DonePkt ==
    [op |-> DoneOp, length |-> 1, size |-> 0, offset |-> 0, data |-> <<>>]

HostImages == {ImgOne, ImgBadAbi}
SmallSize == 2

Packets ==
    { SetSizePkt(n, SetSizeLen) : n \in {SmallSize, Len(ImgOne), HeapSize + 1} }
    \cup { SetSizePkt(SmallSize, SetSizeLen + 1) }
    \cup { BytesPkt(0, img) : img \in HostImages }
    \cup { BytesPkt(SmallSize - 1, <<7, 7>>) }
    \cup { [BytesPkt(0, <<>>) EXCEPT !.length = SetSizeLen] }
    \cup { BytesPkt(AddrSpace - 1, <<7, 7>>) }
    \cup { [BytesPkt(0, <<7>>) EXCEPT !.size = SmallSize] }
    \cup { DonePkt }
    \cup { [DonePkt EXCEPT !.op = DoneOp + 1] }

----------------------------------------------------------------------------
\* Kernel services.

\* xTaskCreate(elfloader_main, ..., param, ...): the new task, or nothing
\* when the kernel cannot allocate it (the callers ignore the result).
ZeroMem == [a \in Addr |-> 0]

NewTask(param, by) ==
    [param |-> param, by |-> by, pc |-> "start", application_elf |-> NULL,
     i |-> 0, snap |-> ZeroMem, wrote |-> {}, entry |-> 0, calls |-> 0]

xTaskCreate(ts, param, by) ==
    IF Len(ts) < MaxTasks THEN Append(ts, NewTask(param, by)) ELSE ts

\* xTimerStop on a one-shot timer: it takes an armed timer off the active
\* list; a timer that already expired is not affected.
xTimerStop(t) == IF t = "armed" THEN "stopped" ELSE t

NoLast ==
    [op |-> "none", image |-> NULL, declared |-> 0, offset |-> 0, size |-> 0,
     length |-> 0, data |-> <<>>, wrote |-> {}]

----------------------------------------------------------------------------
\* elfloader_recv, one case per opcode.

RecvSetSize(pkt) ==
    /\ pkt.op = SetSizeOp
    /\ setSizeSeen' = TRUE
    /\ last' = [NoLast EXCEPT !.op = "SetSize", !.image = elfloader_recv_image,
                              !.declared = AllocSize(elfloader_recv_image),
                              !.size = pkt.size, !.length = pkt.length]
    /\ IF pkt.length # SetSizeLen
       THEN /\ halted' = "assert:SetSize"
            /\ UNCHANGED <<mem, heapTop, allocs, elfloader_recv_image, usb_timer,
                           usb_task, tasks, default_elf>>
       ELSE /\ usb_timer' = xTimerStop(usb_timer)
            /\ elfloader_recv_image' = Malloc(pkt.size)
            /\ IF MallocFits(pkt.size)
               THEN /\ heapTop' = heapTop + pkt.size
                    /\ allocs' = allocs \cup {<<heapTop, pkt.size>>}
               ELSE UNCHANGED <<heapTop, allocs>>
            /\ UNCHANGED <<mem, usb_task, tasks, halted, default_elf>>

\* Line 40, the destination: elfloader_recv_image + bytes->offset.
BytesDestNoOffset(image, offset) == image
BytesDest(image, offset) == PtrAdd(image, offset)

\* Line 40, the source: bytes->size cells starting behind the ElfloaderBytes
\* header in elfloader_data.  The cells of this packet come first; behind
\* them the buffer still holds what earlier transfers left there.
StaleCells == {0, 7}
BytesSource(pkt, stale) ==
    [k \in 1 .. pkt.size |->
        IF k <= Len(pkt.data) THEN pkt.data[k] ELSE stale]

RecvBytes(pkt) ==
    /\ pkt.op = BytesOp
    /\ IF pkt.length < BytesHdrLen
       THEN /\ halted' = "assert:Bytes"
            /\ last' = [NoLast EXCEPT !.op = "Bytes", !.image = elfloader_recv_image,
                                      !.declared = AllocSize(elfloader_recv_image),
                                      !.offset = pkt.offset, !.size = pkt.size,
                                      !.length = pkt.length, !.data = pkt.data]
            /\ UNCHANGED mem
       ELSE \E stale \in StaleCells :
            LET dst == BytesDest(elfloader_recv_image, pkt.offset)
                n == Prefix(dst, pkt.size)
            IN /\ mem' = WriteSeq(mem, dst, BytesSource(pkt, stale))
               /\ halted' = IF n < pkt.size THEN "fault" ELSE halted
               /\ last' = [op |-> "Bytes", image |-> elfloader_recv_image,
                           declared |-> AllocSize(elfloader_recv_image),
                           offset |-> pkt.offset, size |-> pkt.size,
                           length |-> pkt.length, data |-> pkt.data,
                           wrote |-> Range(dst, n)]
    /\ UNCHANGED <<heapTop, allocs, elfloader_recv_image, usb_timer, usb_task,
                   tasks, default_elf, setSizeSeen>>

RecvDoneIfWritten(pkt) ==
    /\ pkt.op = DoneOp
    /\ tasks' = IF last.op = "Bytes"
                THEN xTaskCreate(tasks, elfloader_recv_image, "Done")
                ELSE tasks
    /\ last' = [NoLast EXCEPT !.op = "Done", !.image = elfloader_recv_image,
                              !.declared = AllocSize(elfloader_recv_image),
                              !.length = pkt.length]
    /\ UNCHANGED <<mem, heapTop, allocs, elfloader_recv_image, usb_timer,
                   usb_task, halted, default_elf, setSizeSeen>>

RecvDone(pkt) ==
    /\ pkt.op = DoneOp
    /\ tasks' = xTaskCreate(tasks, elfloader_recv_image, "Done")
    /\ last' = [NoLast EXCEPT !.op = "Done", !.image = elfloader_recv_image,
                              !.declared = AllocSize(elfloader_recv_image),
                              !.length = pkt.length]
    /\ UNCHANGED <<mem, heapTop, allocs, elfloader_recv_image, usb_timer,
                   usb_task, halted, default_elf, setSizeSeen>>

RecvOtherAsDone(pkt) ==
    /\ pkt.op \notin {SetSizeOp, BytesOp, DoneOp}
    /\ tasks' = xTaskCreate(tasks, elfloader_recv_image, "Done")
    /\ last' = [NoLast EXCEPT !.op = "other", !.image = elfloader_recv_image,
                              !.declared = AllocSize(elfloader_recv_image),
                              !.length = pkt.length]
    /\ UNCHANGED <<mem, heapTop, allocs, elfloader_recv_image, usb_timer,
                   usb_task, halted, default_elf, setSizeSeen>>

\* Lines 32-45: the switch has no default case; any other opcode falls
\* through it.
RecvOther(pkt) ==
    /\ pkt.op \notin {SetSizeOp, BytesOp, DoneOp}
    /\ last' = [NoLast EXCEPT !.op = "other", !.image = elfloader_recv_image,
                              !.declared = AllocSize(elfloader_recv_image),
                              !.length = pkt.length]
    /\ UNCHANGED <<mem, heapTop, allocs, elfloader_recv_image, usb_timer,
                   usb_task, tasks, halted, default_elf, setSizeSeen>>

\* elfloader_Handler, kUSB_DeviceHidEventRecvResponse with a packet, handled
\* in usb_device_task: the outstanding receive has completed, the packet
\* goes to elfloader_recv, and line 81 requests the next receive when
\* elfloader_recv returns.
elfloader_recv ==
    /\ halted = "none"
    /\ usb_task = "running"
    /\ recv_armed > 0
    /\ cmds < MaxCmds
    /\ cmds' = cmds + 1
    /\ \E pkt \in Packets :
          \/ RecvSetSize(pkt)
          \/ RecvBytes(pkt)
          \/ RecvDone(pkt)
          \/ RecvOther(pkt)
    /\ recv_armed' = IF halted' = "none" THEN (recv_armed - 1) + 1
                                          ELSE recv_armed - 1

\* elfloader_Handler, kUSB_DeviceHidEventRecvResponse with message->length =
\* USB_UNINITIALIZED_VAL_32 (the transfer was cancelled): elfloader_recv is
\* skipped and line 81 requests the next receive.
RecvCancelled ==
    /\ halted = "none"
    /\ usb_task = "running"
    /\ recv_armed > 0
    /\ recv_armed' = (recv_armed - 1) + 1
    /\ UNCHANGED <<mem, heapTop, allocs, elfloader_recv_image, usb_timer,
                   usb_task, tasks, halted, default_elf, cmds, setSizeSeen,
                   last>>

----------------------------------------------------------------------------
\* The fallback timer.

\* The timer service task finds usb_timer expired and takes it off the
\* active list; the callback is about to run.
TimerExpire ==
    /\ halted = "none"
    /\ usb_timer = "armed"
    /\ usb_timer' = "firing"
    /\ UNCHANGED <<mem, heapTop, allocs, elfloader_recv_image, usb_task, tasks,
                   halted, default_elf, cmds, setSizeSeen, last, recv_armed>>

usb_timer_callbackNoSuspend ==
    /\ halted = "none"
    /\ usb_timer = "firing"
    /\ usb_timer' = "fired"
    /\ tasks' = xTaskCreate(tasks, NULL, "timer")
    /\ UNCHANGED <<mem, heapTop, allocs, elfloader_recv_image, usb_task,
                   halted, default_elf, cmds, setSizeSeen, last, recv_armed>>

usb_timer_callbackReload ==
    /\ halted = "none"
    /\ usb_timer = "firing"
    /\ usb_timer' = "armed"
    /\ usb_task' = "suspended"
    /\ tasks' = xTaskCreate(tasks, NULL, "timer")
    /\ UNCHANGED <<mem, heapTop, allocs, elfloader_recv_image, halted,
                   default_elf, cmds, setSizeSeen, last, recv_armed>>

\* Lines 138-141: vTaskSuspend(usb_task), then xTaskCreate(elfloader_main)
\* with a null parameter.  The timer was created with pdFALSE (line 150):
\* it is not reloaded.
usb_timer_callback ==
    /\ halted = "none"
    /\ usb_timer = "firing"
    /\ usb_timer' = "fired"
    /\ usb_task' = "suspended"
    /\ tasks' = xTaskCreate(tasks, NULL, "timer")
    /\ UNCHANGED <<mem, heapTop, allocs, elfloader_recv_image, halted,
                   default_elf, cmds, setSizeSeen, last, recv_armed>>

----------------------------------------------------------------------------
\* elfloader_main, one action per step of task t.

Min(a, b) == IF a <= b THEN a ELSE b

\* valiant::filesystem::ReadToMemory("/default.elf", &elf_size): the file's
\* cells in a fresh block, or NULL when the file is absent or does not fit.
ReadToMemoryFits == default_elf # <<>> /\ MallocFits(Len(default_elf))

\* Lines 104-108: choose the image.
ElfloaderStart(t) ==
    /\ halted = "none"
    /\ tasks[t].pc = "start"
    /\ IF tasks[t].param = NULL
       THEN IF ReadToMemoryFits
            THEN /\ mem' = WriteSeq(mem, heapTop, default_elf)
                 /\ heapTop' = heapTop + Len(default_elf)
                 /\ allocs' = allocs \cup {<<heapTop, Len(default_elf)>>}
                 /\ tasks' = [tasks EXCEPT ![t].pc = "validate",
                                           ![t].application_elf = heapTop,
                                           ![t].snap = mem']
            ELSE /\ tasks' = [tasks EXCEPT ![t].pc = "validate",
                                           ![t].application_elf = NULL,
                                           ![t].snap = mem]
                 /\ UNCHANGED <<mem, heapTop, allocs>>
       ELSE /\ tasks' = [tasks EXCEPT ![t].pc = "validate",
                                      ![t].application_elf = tasks[t].param,
                                      ![t].snap = mem]
            /\ UNCHANGED <<mem, heapTop, allocs>>
    /\ UNCHANGED <<elfloader_recv_image, usb_timer, usb_task, halted,
                   default_elf, cmds, setSizeSeen, last, recv_armed>>

AbiOkUnchecked(flags) == TRUE
\* Line 111: the ABI version of e_flags.
AbiOk(flags) == EF_ARM_EABI_VERSION(flags) = EF_ARM_EABI_VER5
\* Line 112: e_phentsize.
PhentsizeOk(phentsize) == phentsize = PhdrSize

ElfloaderValidateSizeFirst(t) ==
    LET elf == tasks[t].application_elf
        fa == PtrAdd(elf, E_FLAGS)
        pa == PtrAdd(elf, E_PHENTSIZE)
    IN /\ halted = "none"
       /\ tasks[t].pc = "validate"
       /\ IF ~InMem(fa) \/ ~InMem(pa)
          THEN /\ halted' = "fault"
               /\ tasks' = [tasks EXCEPT ![t].pc = "aborted"]
          ELSE IF ~PhentsizeOk(mem[pa])
          THEN /\ halted' = "assert:phentsize"
               /\ tasks' = [tasks EXCEPT ![t].pc = "aborted"]
          ELSE IF ~AbiOk(mem[fa])
          THEN /\ halted' = "assert:abi"
               /\ tasks' = [tasks EXCEPT ![t].pc = "aborted"]
          ELSE /\ tasks' = [tasks EXCEPT ![t].pc = "loop", ![t].i = 0]
               /\ UNCHANGED halted
       /\ UNCHANGED <<mem, heapTop, allocs, elfloader_recv_image, usb_timer,
                      usb_task, default_elf, cmds, setSizeSeen, last,
                      recv_armed>>

\* Lines 110-112: the two assertions on the header.
ElfloaderValidate(t) ==
    LET elf == tasks[t].application_elf
        fa == PtrAdd(elf, E_FLAGS)
        pa == PtrAdd(elf, E_PHENTSIZE)
    IN /\ halted = "none"
       /\ tasks[t].pc = "validate"
       /\ IF ~InMem(fa) \/ ~InMem(pa)
          THEN /\ halted' = "fault"
               /\ tasks' = [tasks EXCEPT ![t].pc = "aborted"]
          ELSE IF ~AbiOk(mem[fa])
          THEN /\ halted' = "assert:abi"
               /\ tasks' = [tasks EXCEPT ![t].pc = "aborted"]
          ELSE IF ~PhentsizeOk(mem[pa])
          THEN /\ halted' = "assert:phentsize"
               /\ tasks' = [tasks EXCEPT ![t].pc = "aborted"]
          ELSE /\ tasks' = [tasks EXCEPT ![t].pc = "loop", ![t].i = 0]
               /\ UNCHANGED halted
       /\ UNCHANGED <<mem, heapTop, allocs, elfloader_recv_image, usb_timer,
                      usb_task, default_elf, cmds, setSizeSeen, last,
                      recv_armed>>

\* Line 115: the address of program header i.
ProgramHeader(elf, phoff, i) == PtrAdd(PtrAdd(elf, phoff), PhdrSize * i)
CopyCountAnyType(type, filesz) == filesz
\* Lines 116-121: the cells entry (type, filesz) makes the loader copy.
CopyCount(type, filesz) == IF type # PT_LOAD THEN 0 ELSE filesz
SegmentSourceNoBase(elf, offset) == offset % AddrSpace
\* Line 122: the source of the copy.
SegmentSource(elf, offset) == PtrAdd(elf, offset)

ElfloaderSegmentDescending(t) ==
    LET elf == tasks[t].application_elf
        ph == ProgramHeader(elf, mem[PtrAdd(elf, E_PHOFF)],
                            mem[PtrAdd(elf, E_PHNUM)] - 1 - tasks[t].i)
    IN /\ halted = "none"
       /\ tasks[t].pc = "loop"
       /\ InMem(PtrAdd(elf, E_PHNUM))
       /\ tasks[t].i < mem[PtrAdd(elf, E_PHNUM)]
       /\ IF ~InMem(PtrAdd(elf, E_PHOFF)) \/ Prefix(ph, PhdrSize) < PhdrSize
          THEN /\ halted' = "fault"
               /\ tasks' = [tasks EXCEPT ![t].pc = "aborted"]
               /\ UNCHANGED mem
          ELSE LET n == CopyCount(mem[PtrAdd(ph, P_TYPE)], mem[PtrAdd(ph, P_FILESZ)])
                   dst == mem[PtrAdd(ph, P_PADDR)] % AddrSpace
                   src == SegmentSource(elf, mem[PtrAdd(ph, P_OFFSET)])
                   ok == Min(Prefix(dst, n), Prefix(src, n))
               IN /\ mem' = Memcpy(mem, dst, src, ok)
                  /\ IF ok < n
                     THEN /\ halted' = "fault"
                          /\ tasks' = [tasks EXCEPT ![t].pc = "aborted",
                                          ![t].wrote = @ \cup Range(dst, ok)]
                     ELSE /\ UNCHANGED halted
                          /\ tasks' = [tasks EXCEPT ![t].i = @ + 1,
                                          ![t].wrote = @ \cup Range(dst, ok)]
       /\ UNCHANGED <<heapTop, allocs, elfloader_recv_image, usb_timer, usb_task,
                      default_elf, cmds, setSizeSeen, last, recv_armed>>

\* Lines 114-123: one iteration of the loop over the program headers.
ElfloaderSegment(t) ==
    LET elf == tasks[t].application_elf
        ph == ProgramHeader(elf, mem[PtrAdd(elf, E_PHOFF)], tasks[t].i)
    IN /\ halted = "none"
       /\ tasks[t].pc = "loop"
       /\ InMem(PtrAdd(elf, E_PHNUM))
       /\ tasks[t].i < mem[PtrAdd(elf, E_PHNUM)]
       /\ IF ~InMem(PtrAdd(elf, E_PHOFF)) \/ Prefix(ph, PhdrSize) < PhdrSize
          THEN /\ halted' = "fault"
               /\ tasks' = [tasks EXCEPT ![t].pc = "aborted"]
               /\ UNCHANGED mem
          ELSE LET n == CopyCount(mem[PtrAdd(ph, P_TYPE)], mem[PtrAdd(ph, P_FILESZ)])
                   dst == mem[PtrAdd(ph, P_PADDR)] % AddrSpace
                   src == SegmentSource(elf, mem[PtrAdd(ph, P_OFFSET)])
                   ok == Min(Prefix(dst, n), Prefix(src, n))
               IN /\ mem' = Memcpy(mem, dst, src, ok)
                  /\ IF ok < n
                     THEN /\ halted' = "fault"
                          /\ tasks' = [tasks EXCEPT ![t].pc = "aborted",
                                          ![t].wrote = @ \cup Range(dst, ok)]
                     ELSE /\ UNCHANGED halted
                          /\ tasks' = [tasks EXCEPT ![t].i = @ + 1,
                                          ![t].wrote = @ \cup Range(dst, ok)]
       /\ UNCHANGED <<heapTop, allocs, elfloader_recv_image, usb_timer, usb_task,
                      default_elf, cmds, setSizeSeen, last, recv_armed>>

ElfloaderEntryEarly(t) ==
    LET elf == tasks[t].application_elf
    IN /\ halted = "none"
       /\ tasks[t].pc = "loop"
       /\ InMem(PtrAdd(elf, E_ENTRY))
       /\ tasks' = [tasks EXCEPT ![t].pc = "in_image",
                                 ![t].entry = mem[PtrAdd(elf, E_ENTRY)],
                                 ![t].calls = @ + 1]
       /\ UNCHANGED <<mem, heapTop, allocs, elfloader_recv_image, usb_timer,
                      usb_task, halted, default_elf, cmds, setSizeSeen, last,
                      recv_armed>>

\* Lines 125-126: the loop is over; call e_entry.
ElfloaderEntry(t) ==
    LET elf == tasks[t].application_elf
    IN /\ halted = "none"
       /\ tasks[t].pc = "loop"
       /\ IF ~InMem(PtrAdd(elf, E_PHNUM)) \/ ~InMem(PtrAdd(elf, E_ENTRY))
          THEN /\ halted' = "fault"
               /\ tasks' = [tasks EXCEPT ![t].pc = "aborted"]
          ELSE /\ tasks[t].i >= mem[PtrAdd(elf, E_PHNUM)]
               /\ tasks' = [tasks EXCEPT ![t].pc = "in_image",
                                         ![t].entry = mem[PtrAdd(elf, E_ENTRY)],
                                         ![t].calls = @ + 1]
               /\ UNCHANGED halted
       /\ UNCHANGED <<mem, heapTop, allocs, elfloader_recv_image, usb_timer,
                      usb_task, default_elf, cmds, setSizeSeen, last,
                      recv_armed>>

ElfloaderParkResumable(t) ==
    /\ halted = "none"
    /\ tasks[t].pc \in {"in_image", "parked"}
    /\ tasks' = [tasks EXCEPT ![t].pc =
                    IF tasks[t].pc = "in_image" THEN "parked" ELSE "loop"]
    /\ UNCHANGED <<mem, heapTop, allocs, elfloader_recv_image, usb_timer,
                   usb_task, halted, default_elf, cmds, setSizeSeen, last,
                   recv_armed>>

\* Line 128: the image returned; the task suspends itself.
ElfloaderPark(t) ==
    /\ halted = "none"
    /\ tasks[t].pc = "in_image"
    /\ tasks' = [tasks EXCEPT ![t].pc = "parked"]
    /\ UNCHANGED <<mem, heapTop, allocs, elfloader_recv_image, usb_timer,
                   usb_task, halted, default_elf, cmds, setSizeSeen, last,
                   recv_armed>>

elfloader_main ==
    \E t \in 1 .. Len(tasks) :
        \/ ElfloaderStart(t)
        \/ ElfloaderValidate(t)
        \/ ElfloaderSegment(t)
        \/ ElfloaderEntry(t)
        \/ ElfloaderPark(t)

----------------------------------------------------------------------------
\* The device after main() has armed the timer and started the scheduler.

\* Memory the program has not written holds whatever was there: a fill
\* pattern (0x00, or 0xFF) in every cell, or, at the bottom of memory, cells
\* that happen to read as an ELF header (LowHeaderMem).
FillMem(f) == [a \in Addr |-> f]
InitMems == { FillMem(0) }
LowHeaderMem == WriteSeq(FillMem(0), NULL, ImgNoPh)
LoaderMems == { FillMem(0), FillMem(255), LowHeaderMem }

Init ==
    /\ mem \in InitMems
    /\ heapTop = HeapBase
    /\ allocs = {}
    /\ elfloader_recv_image = NULL
    /\ usb_timer = "armed"
    /\ usb_task = "running"
    /\ tasks = <<>>
    /\ halted = "none"
    /\ default_elf \in DefaultImages
    /\ cmds = 0
    /\ setSizeSeen = FALSE
    /\ last = NoLast
    /\ recv_armed = 1

Next ==
    \/ elfloader_recv
    \/ RecvCancelled
    \/ TimerExpire
    \/ usb_timer_callback
    \/ elfloader_main

Spec == Init /\ [][Next]_vars

----------------------------------------------------------------------------
\* load() on its own: one elfloader_main task, just created, and nothing
\* else running.  Either the host uploaded img into a block at the bottom
\* of the heap and sent Done, or the timer fired and /default.elf holds img.

LoaderInitHost(img) ==
    /\ mem \in { WriteSeq(m, HeapBase, img) : m \in LoaderMems }
    /\ heapTop = HeapBase + Len(img)
    /\ allocs = {<<HeapBase, Len(img)>>}
    /\ elfloader_recv_image = HeapBase
    /\ usb_timer = "stopped"
    /\ usb_task = "running"
    /\ tasks = <<NewTask(HeapBase, "Done")>>
    /\ halted = "none"
    /\ default_elf = <<>>
    /\ cmds = MaxCmds
    /\ setSizeSeen = TRUE
    /\ last = [NoLast EXCEPT !.op = "Done", !.image = HeapBase,
                             !.declared = Len(img), !.length = 1]
    /\ recv_armed = 1

LoaderInitFallback(img) ==
    /\ mem \in LoaderMems
    /\ heapTop = HeapBase
    /\ allocs = {}
    /\ elfloader_recv_image = NULL
    /\ usb_timer = "fired"
    /\ usb_task = "suspended"
    /\ tasks = <<NewTask(NULL, "timer")>>
    /\ halted = "none"
    /\ default_elf = img
    /\ cmds = 0
    /\ setSizeSeen = FALSE
    /\ last = NoLast
    /\ recv_armed = 1

LoaderInit ==
    \/ \E img \in Images : LoaderInitHost(img)
    \/ \E img \in Images \cup {<<>>} : LoaderInitFallback(img)

LoaderNext == elfloader_main

LoaderSpec == LoaderInit /\ [][LoaderNext]_vars

----------------------------------------------------------------------------
\* The image a task loads, as it stood when the task took it (snap).

TaskIds == 1 .. Len(tasks)
Entered(t) == tasks[t].pc # "start"
Loaded(t) == tasks[t].pc \in {"in_image", "parked"}

SnapHdr(t, f) == tasks[t].snap[PtrAdd(tasks[t].application_elf, f)]
SnapPh(t, i, f) ==
    tasks[t].snap[PtrAdd(ProgramHeader(tasks[t].application_elf,
                                       SnapHdr(t, E_PHOFF), i), f)]
SnapEntries(t) == 0 .. (SnapHdr(t, E_PHNUM) - 1)

\* The image lies inside its block: header, program header table and the
\* file range of every entry; and every destination is populated memory.
WellFormed(t) ==
    LET elf == tasks[t].application_elf
        size == AllocSize(elf)
    IN /\ elf # NULL
       /\ EhdrSize <= size
       /\ SnapHdr(t, E_PHOFF) + SnapHdr(t, E_PHNUM) * PhdrSize <= size
       /\ \A i \in SnapEntries(t) :
             /\ SnapPh(t, i, P_OFFSET) + SnapPh(t, i, P_FILESZ) <= size
             /\ SnapPh(t, i, P_PADDR) + SnapPh(t, i, P_FILESZ) <= MemSize

PassesValidation(t) ==
    /\ EF_ARM_EABI_VERSION(SnapHdr(t, E_FLAGS)) = EF_ARM_EABI_VER5
    /\ SnapHdr(t, E_PHENTSIZE) = PhdrSize

\* The loadable entries of nonzero file size, and where each lands.
Segments(t) ==
    { i \in SnapEntries(t) :
        SnapPh(t, i, P_TYPE) = PT_LOAD /\ SnapPh(t, i, P_FILESZ) # 0 }
Dest(t, i) == Range(SnapPh(t, i, P_PADDR), SnapPh(t, i, P_FILESZ))
AllDest(t) == UNION { Dest(t, i) : i \in Segments(t) }

ImageBlock(t) ==
    Range(tasks[t].application_elf, AllocSize(tasks[t].application_elf))
HeaderCells(t) ==
    Range(tasks[t].application_elf, EhdrSize)
    \cup Range(PtrAdd(tasks[t].application_elf, SnapHdr(t, E_PHOFF)),
               SnapHdr(t, E_PHNUM) * PhdrSize)

DisjointDests(t) ==
    \A i, j \in Segments(t) : i # j => Dest(t, i) \cap Dest(t, j) = {}

\* Segment i of the image is in place at its physical address.
SegmentInPlace(t, i) ==
    \A k \in 0 .. (SnapPh(t, i, P_FILESZ) - 1) :
        mem[PtrAdd(SnapPh(t, i, P_PADDR), k)]
            = tasks[t].snap[PtrAdd(PtrAdd(tasks[t].application_elf,
                                          SnapPh(t, i, P_OFFSET)), k)]

----------------------------------------------------------------------------
\* Properties.

TasksBy(who) == { t \in TaskIds : tasks[t].by = who }

\* C1: at most one load-and-run sequence (elfloader_main task) is entered
\* per boot, whatever the host sends and whenever the timer expires.
AtMostOneLoadEntered ==
    Cardinality({ t \in TaskIds : Entered(t) }) <= 1

\* C2: when a SetSize races the expiry of the fallback timer, the host's
\* Done and the timer callback do not both start a load-and-run sequence.
RaceStartsOneLoad ==
    ~(/\ TasksBy("timer") # {}
      /\ \E t \in TasksBy("Done") : tasks[t].param # NULL)

\* C3: a Bytes command on a session buffer with offset + size beyond the
\* declared size is rejected: it writes nothing.
BytesBeyondDeclaredRejected ==
    (/\ last.op = "Bytes"
     /\ last.image # NULL
     /\ last.offset + last.size > last.declared)
        => last.wrote = {}

\* C4: a Done received before any SetSize starts no load-and-run sequence.
DoneBeforeSetSizeRejected ==
    ~setSizeSeen => TasksBy("Done") = {}

\* C5: a Bytes command received before any SetSize (null session buffer)
\* writes no memory.
BytesBeforeSetSizeRejected ==
    (last.op = "Bytes" /\ ~setSizeSeen) => last.wrote = {}

\* C6: a task whose image fails the ABI check or the program-header
\* entry-size check never gets past validation and writes no cell of memory.
BadImageNeverCopied ==
    \A t \in TaskIds :
        (Entered(t) /\ ~PassesValidation(t))
            => /\ tasks[t].pc \in {"validate", "aborted"}
               /\ tasks[t].wrote = {}
               /\ mem = tasks[t].snap

\* C6, witness: an image with a loadable segment was rejected at validation.
BadImageRejected ==
    \E t \in TaskIds :
        /\ tasks[t].pc = "aborted"
        /\ tasks[t].application_elf # NULL
        /\ ~PassesValidation(t)
        /\ WellFormed(t)
        /\ Segments(t) # {}
        /\ halted \in {"assert:abi", "assert:phentsize"}

\* C7, as claimed: after the load of a well-formed image that passes
\* validation, every loadable segment of nonzero file size is in place.
EverySegmentInPlace ==
    \A t \in TaskIds :
        (Loaded(t) /\ WellFormed(t))
            => \A i \in Segments(t) : SegmentInPlace(t, i)

\* C7, amended: the same, for images whose segments' destinations are
\* pairwise disjoint and lie outside the block that holds the image.
DisjointSegmentsInPlace ==
    \A t \in TaskIds :
        (/\ Loaded(t)
         /\ WellFormed(t)
         /\ DisjointDests(t)
         /\ AllDest(t) \cap ImageBlock(t) = {})
            => \A i \in Segments(t) : SegmentInPlace(t, i)

\* C7, witness: an image of two disjoint segments is loaded and entered.
TwoSegmentsLoaded ==
    \E t \in TaskIds :
        /\ Loaded(t)
        /\ WellFormed(t)
        /\ DisjointDests(t)
        /\ AllDest(t) \cap ImageBlock(t) = {}
        /\ Cardinality(Segments(t)) = 2
        /\ tasks[t].wrote = AllDest(t)

\* C8, as claimed: the loader changes no cell outside the destinations of
\* the image's loadable segments of nonzero file size.
OnlySegmentsWritten ==
    \A t \in TaskIds :
        (Entered(t) /\ WellFormed(t))
            => \A a \in Addr \ AllDest(t) : mem[a] = tasks[t].snap[a]

\* C8, amended: the same, for images none of whose segments lands on the
\* image's own ELF header or program header table.
OnlySegmentsWrittenIfHeadersKept ==
    \A t \in TaskIds :
        (/\ Entered(t)
         /\ WellFormed(t)
         /\ AllDest(t) \cap HeaderCells(t) = {})
            => \A a \in Addr \ AllDest(t) : mem[a] = tasks[t].snap[a]

\* C8, witness: an image with a non-loadable entry and a loadable entry of
\* file size zero is loaded, and memory is as it was.
SkippedEntriesLoaded ==
    \E t \in TaskIds :
        /\ Loaded(t)
        /\ WellFormed(t)
        /\ AllDest(t) \cap HeaderCells(t) = {}
        /\ \E i \in SnapEntries(t) : SnapPh(t, i, P_TYPE) # PT_LOAD
        /\ \E i \in SnapEntries(t) :
              SnapPh(t, i, P_TYPE) = PT_LOAD /\ SnapPh(t, i, P_FILESZ) = 0
        /\ mem = tasks[t].snap

\* C9: once a SetSize has stopped the timer, the timer stays stopped (its
\* callback never runs) and no load of the default image is started: no
\* elfloader_main task is created with a null parameter.
NoFallbackAfterSetSize ==
    [][usb_timer = "stopped"
          => /\ usb_timer' = "stopped"
             /\ \A t \in 1 .. Len(tasks') :
                   t > Len(tasks) => tasks'[t].param # NULL]_vars

\* The task the timer callback created has taken /default.elf.
FallbackStarted ==
    \E t \in TasksBy("timer") : Entered(t)

\* C10: with no SetSize received, the timer expires and the load of the
\* default image is started: the device does not stop before that.
NoSetSizeThenFallback ==
    (halted # "none" /\ ~setSizeSeen) => FallbackStarted

\* C11: once a Done has handed the session buffer to elfloader_main, a
\* Bytes command writes nothing through that pointer any more.
BytesAfterDoneRejected ==
    (/\ last.op = "Bytes"
     /\ last.image # NULL
     /\ \E t \in TasksBy("Done") : tasks[t].param = last.image)
        => last.wrote \cap Range(last.image, last.declared) = {}

\* C12: after a SetSize whose allocation failed there is no session, so a
\* later Bytes does not write through the null buffer pointer.
FailedAllocationNeverWritten ==
    (/\ setSizeSeen
     /\ last.op = "Bytes"
     /\ last.image = NULL)
        => last.wrote = {}

\* C13: a SetSize or Bytes packet of the wrong length is rejected and the
\* device keeps running.
MalformedPacketKeepsDeviceAlive ==
    halted \notin {"assert:SetSize", "assert:Bytes"}

\* C14: an uploaded image that fails the ABI or the entry-size check ends
\* its own load attempt only; the device keeps running.
FormatErrorKeepsDeviceAlive ==
    \A t \in TasksBy("Done") :
        (tasks[t].pc = "aborted" /\ tasks[t].param # NULL /\ WellFormed(t))
            => halted \notin {"assert:abi", "assert:phentsize"}

\* C15: a SetSize received while a session buffer is still with the
\* receiver is either rejected (the session keeps its buffer) or starts a
\* new session and releases the prior buffer.
SecondSetSizeReleasesPrior ==
    (/\ last.op = "SetSize"
     /\ halted = "none"
     /\ last.image # NULL
     /\ \A t \in TaskIds : tasks[t].param # last.image)
        => \/ elfloader_recv_image = last.image
           \/ \A a \in allocs : a[1] # last.image

\* C16: the entry point is called at most once per task, and only for an
\* image that passed validation, after the loop has gone through every
\* program header and copied every loadable segment of nonzero file size.
EntryOnlyAfterLoad ==
    \A t \in TaskIds :
        /\ tasks[t].calls <= 1
        /\ tasks[t].calls = 1 <=> Loaded(t)
        /\ Loaded(t) =>
              /\ PassesValidation(t)
              /\ WellFormed(t) =>
                    /\ tasks[t].i = SnapHdr(t, E_PHNUM)
                    /\ AllDest(t) \cap HeaderCells(t) = {}
                          => tasks[t].wrote = AllDest(t)

\* C16, witness: the entry point of an image with a loadable segment was
\* called, once, with the segment copied.
EntryCalledAfterCopy ==
    \E t \in TaskIds :
        /\ tasks[t].pc = "in_image"
        /\ tasks[t].calls = 1
        /\ WellFormed(t)
        /\ Segments(t) # {}
        /\ tasks[t].wrote = AllDest(t)
        /\ tasks[t].entry = SnapHdr(t, E_ENTRY)

\* C17: a task parked after its image returned stays as it is: it is kept
\* in the task list, suspended, and no step of the system changes it.
ParkedStaysParked ==
    [][\A t \in TaskIds :
          tasks[t].pc = "parked"
              => (t <= Len(tasks') /\ tasks'[t] = tasks[t])]_vars

\* C17, witness: a task is parked while another elfloader_main task exists.
ParkedBesideAnotherTask ==
    \E t, u \in TaskIds :
        /\ t # u
        /\ tasks[t].pc = "parked"
        /\ tasks[u].pc # "start"

\* The receiver is in state Receiving: a session buffer exists and no Done
\* has dispatched it.
Receiving ==
    /\ elfloader_recv_image # NULL
    /\ \A t \in TasksBy("Done") : tasks[t].param # elfloader_recv_image

\* C18: a Done spawns a load-and-run sequence only in state Receiving, and
\* with the current session's buffer.
DoneSpawnsOnlyWhenReceiving ==
    [][(Len(tasks') > Len(tasks) /\ tasks'[Len(tasks')].by = "Done")
          => (Receiving /\ tasks'[Len(tasks')].param = elfloader_recv_image)]_vars

\* C19: the trigger selects the source: a task the timer created takes
\* /default.elf, a task a Done created takes the session buffer and never
\* /default.elf.
LoadSourceFollowsTrigger ==
    \A t \in TaskIds :
        Entered(t) =>
            /\ tasks[t].by = "timer" => tasks[t].param = NULL
            /\ tasks[t].by = "Done" =>
                  (tasks[t].param # NULL
                   /\ tasks[t].application_elf = tasks[t].param)

\* C20: a session buffer is handed to at most one elfloader_main task.
BufferHandedOnce ==
    \A t, u \in TasksBy("Done") :
        (t # u /\ tasks[t].param # NULL) => tasks[t].param # tasks[u].param

\* C21: an in-bounds Bytes(offset, size, payload) on a session buffer that
\* no Done has dispatched makes buffer[offset .. offset+size) equal to the
\* payload and changes no other cell, nor the declared size, nor the session
\* pointer, nor the timer.
InBoundsBytesFrame ==
    [][(/\ cmds' = cmds + 1
        /\ last'.op = "Bytes"
        /\ Receiving
        /\ last'.length = BytesHdrLen + last'.size
        /\ Len(last'.data) = last'.size
        /\ last'.offset + last'.size <= AllocSize(elfloader_recv_image))
          => LET dst == PtrAdd(elfloader_recv_image, last'.offset)
             IN /\ \A k \in 1 .. last'.size :
                      mem'[PtrAdd(dst, k - 1)] = last'.data[k]
                /\ \A a \in Addr \ Range(dst, last'.size) : mem'[a] = mem[a]
                /\ allocs' = allocs
                /\ elfloader_recv_image' = elfloader_recv_image
                /\ usb_timer' = usb_timer]_vars

InBoundsBytesLanded ==
    /\ last.op = "Bytes"
    /\ last.image # NULL
    /\ last.offset > 0
    /\ last.size > 0
    /\ Len(last.data) = last.size
    /\ last.offset + last.size <= last.declared
    /\ \A k \in 1 .. last.size :
          mem[PtrAdd(PtrAdd(last.image, last.offset), k - 1)] = last.data[k]

\* C22: the timer callback suspends usb_device_task before it creates the
\* fallback task, and nothing resumes it: once the callback has run, no
\* packet is handed to elfloader_recv and the receiver's state stays as it is.
UsbTaskSuspendedForGood ==
    [][/\ \A t \in 1 .. Len(tasks') :
             tasks'[t].by = "timer" => usb_task' = "suspended"
       /\ usb_timer' = "fired" => usb_task' = "suspended"
       /\ usb_task = "suspended" =>
             /\ usb_task' = "suspended"
             /\ cmds' = cmds
             /\ last' = last
             /\ elfloader_recv_image' = elfloader_recv_image]_vars

FallbackRanWithPacketsPending ==
    /\ usb_timer = "fired"
    /\ usb_task = "suspended"
    /\ cmds < MaxCmds
    /\ \E t \in TasksBy("timer") : Loaded(t)

\* C23: the fallback timer is single-shot: armed at boot only, never armed
\* again by a command or by its own expiry, and its callback runs at most
\* once.
TimerSingleShot ==
    [][/\ usb_timer' = "armed" => usb_timer = "armed"
       /\ usb_timer \in {"fired", "stopped"} => usb_timer' = usb_timer
       /\ usb_timer = "firing" => usb_timer' \in {"firing", "fired"}
       /\ Cardinality({ t \in 1 .. Len(tasks') : tasks'[t].by = "timer" }) <= 1
      ]_vars

FiredOnceDespiteSetSize ==
    /\ usb_timer = "fired"
    /\ setSizeSeen
    /\ cmds = MaxCmds
    /\ Cardinality(TasksBy("timer")) = 1

\* C24: validation checks the ABI version first and the program-header
\* entry size second: an image that fails both stops on the ABI assertion,
\* an image that fails only the entry size stops on the entry-size assertion.
AbiCheckedFirst ==
    \A t \in TaskIds :
        tasks[t].pc = "aborted" =>
            /\ EF_ARM_EABI_VERSION(SnapHdr(t, E_FLAGS)) # EF_ARM_EABI_VER5
                  => halted = "assert:abi"
            /\ (/\ EF_ARM_EABI_VERSION(SnapHdr(t, E_FLAGS)) = EF_ARM_EABI_VER5
                /\ SnapHdr(t, E_PHENTSIZE) # PhdrSize)
                  => halted = "assert:phentsize"

BothChecksFailAbiReported ==
    \E t \in TaskIds :
        /\ tasks[t].pc = "aborted"
        /\ EF_ARM_EABI_VERSION(SnapHdr(t, E_FLAGS)) # EF_ARM_EABI_VER5
        /\ SnapHdr(t, E_PHENTSIZE) # PhdrSize
        /\ halted = "assert:abi"

\* C25: after every receive-complete event, dispatched to elfloader_recv or
\* not, the receive is requested again exactly once: exactly one receive is
\* outstanding between packets.
OneReceiveOutstanding ==
    recv_armed = 1

\* C26: Done creates the load-and-run task with the session buffer however
\* many of its declared cells have been written; nothing is counted or
\* checked at Done.
DoneDispatchesWhateverWasWritten ==
    [][(cmds' = cmds + 1 /\ last'.op = "Done" /\ Len(tasks) < MaxTasks)
          => /\ Len(tasks') = Len(tasks) + 1
             /\ tasks'[Len(tasks')].by = "Done"
             /\ tasks'[Len(tasks')].param = elfloader_recv_image]_vars

DoneWithNothingWritten ==
    /\ cmds = 2
    /\ setSizeSeen
    /\ last.op = "Done"
    /\ last.image # NULL
    /\ \E t \in TasksBy("Done") : tasks[t].param = last.image

\* C27: the program headers are processed in index order, so a destination
\* cell that several loadable segments cover holds, after the load, the cell
\* of the covering segment with the highest index.
HighestIndexWins ==
    \A t \in TaskIds :
        (Loaded(t) /\ WellFormed(t) /\ AllDest(t) \cap ImageBlock(t) = {}) =>
            \A a \in AllDest(t) :
                LET i == CHOOSE i \in Segments(t) :
                            /\ a \in Dest(t, i)
                            /\ \A j \in Segments(t) : a \in Dest(t, j) => j <= i
                    k == CHOOSE k \in 0 .. (SnapPh(t, i, P_FILESZ) - 1) :
                            PtrAdd(SnapPh(t, i, P_PADDR), k) = a
                IN mem[a] = tasks[t].snap[PtrAdd(PtrAdd(tasks[t].application_elf,
                                                        SnapPh(t, i, P_OFFSET)),
                                                 k)]

OverlappingSegmentsLoaded ==
    \E t \in TaskIds :
        /\ Loaded(t)
        /\ WellFormed(t)
        /\ AllDest(t) \cap ImageBlock(t) = {}
        /\ \E i, j \in Segments(t) :
              /\ i < j
              /\ Dest(t, i) \cap Dest(t, j) # {}
              /\ ~SegmentInPlace(t, i)

\* C28: a Bytes whose offset + size exceeds the declared size only before
\* the sum wraps at the pointer width is rejected: it writes nothing.
WrappingBytesRejected ==
    (/\ last.op = "Bytes"
     /\ last.image # NULL
     /\ last.length = BytesHdrLen + last.size
     /\ last.offset + last.size > last.declared
     /\ (last.offset + last.size) % AddrSpace <= last.declared)
        => last.wrote = {}

\* C29: a Bytes whose size field exceeds the payload cells the packet
\* carries (length - 9) is rejected: nothing is copied from behind the
\* received packet.
BytesReadWithinPacket ==
    (/\ last.op = "Bytes"
     /\ last.image # NULL
     /\ last.length >= BytesHdrLen
     /\ last.size > last.length - BytesHdrLen)
        => last.wrote = {}

\* C30: when the timer's task finds no /default.elf (ReadToMemory returns
\* null), it reads no image header, writes no device memory and calls no
\* entry point.
NullImageNotLoaded ==
    \A t \in TasksBy("timer") :
        (Entered(t) /\ tasks[t].application_elf = NULL) =>
            /\ tasks[t].pc = "validate"
            /\ tasks[t].wrote = {}
            /\ tasks[t].calls = 0

\* The image a task loads keeps its reads inside its block: the header, the
\* program header table and the file range of every segment it copies.
ReadsInsideImage(t) ==
    LET elf == tasks[t].application_elf
        size == AllocSize(elf)
    IN /\ elf # NULL
       /\ EhdrSize <= size
       /\ SnapHdr(t, E_PHOFF) + SnapHdr(t, E_PHNUM) * PhdrSize <= size
       /\ \A i \in Segments(t) :
             SnapPh(t, i, P_OFFSET) + SnapPh(t, i, P_FILESZ) <= size

\* C31: an image whose program header table or whose copied segment ranges
\* run outside [0, image size) is rejected: the loader processes no program
\* header of it, copies nothing and calls no entry point.
ImageReadOutsideRejected ==
    \A t \in TaskIds :
        (/\ Entered(t)
         /\ tasks[t].application_elf # NULL
         /\ AllocSize(tasks[t].application_elf) >= EhdrSize
         /\ PassesValidation(t)
         /\ ~ReadsInsideImage(t))
            => /\ tasks[t].i = 0
               /\ tasks[t].wrote = {}
               /\ tasks[t].calls = 0

\* C32: a packet whose opcode is none of SetSize, Bytes, Done changes
\* nothing: the session pointer, the memory, the allocations and the timer
\* are as before, no task is created and the device keeps running with one
\* receive outstanding.
UnknownOpcodeChangesNothing ==
    [][(cmds' = cmds + 1 /\ last'.op = "other")
          => /\ elfloader_recv_image' = elfloader_recv_image
             /\ mem' = mem
             /\ heapTop' = heapTop
             /\ allocs' = allocs
             /\ usb_timer' = usb_timer
             /\ usb_task' = usb_task
             /\ tasks' = tasks
             /\ halted' = halted
             /\ recv_armed' = recv_armed]_vars

UnknownOpcodeInSession ==
    /\ last.op = "other"
    /\ last.image # NULL
    /\ elfloader_recv_image = last.image
    /\ usb_timer = "stopped"
    /\ halted = "none"
    /\ tasks = <<>>

====
